---- MODULE Spec2Model ----
(***************************************************************************)
(* Cache layer of CloudFS (src/src/cloudfs/cache_layer.c).                 *)
(*                                                                         *)
(* State: the two static counters Total_space and Remaining_space, the     *)
(* files of the cache directory (one per segment key, each with its        *)
(* user.timestamp extended attribute), and the objects of the cloud        *)
(* bucket.  One action per public function; each action is the whole       *)
(* function, run from entry to return.                                     *)
(***************************************************************************)
EXTENDS Integers, Sequences, FiniteSets, TLC

\* ---------------------------------------------------------------- bounds
NumKeys  == 2   \* segment keys 1..NumKeys
MaxLen   == 2   \* longest segment handed to cache_layer_upload_seg
MaxTotal == 4   \* largest --cache-size given to cache_layer_init
MaxClock == 3   \* number of clock_gettime readings in one run
MaxRef   == 1   \* largest reference count the dedup layer reports
MaxDrift == 2   \* how far Remaining_space is followed below 0 or above Total_space
MaxFaults == 1  \* faults injected in one run
NumThreads == 2 \* calls that run interleaved

\* ------------------------------------------------------ program constants
CANNOT_EVICT == 100

Keys == 1..NumKeys

\* The bytes of the segment with key k and length n.  Keys are content
\* hashes, so the bytes of two keys differ and one key always names the
\* same bytes (seglen below fixes each key's length for the whole run).
SegmentBytes(k, n) == [i \in 1..n |-> k]

\* ------------------------------------------------- compression collaborator
\* compress_layer_compress: the blob written to the cache file.  A header
\* holding the original length, then the bytes.
Compress(bytes) == <<Len(bytes)>> \o bytes

\* compress_layer_decompress: fails (negative) on a blob that is no output
\* of Compress, among them the empty file.
CanDecompress(blob) == Len(blob) >= 1 /\ blob[1] = Len(blob) - 1
Decompress(blob) == Tail(blob)

\* lstat(cache_file).st_size
FileSize(blob) == Len(blob)

\* ------------------------------------------------------------------ state
VARIABLES
  Total_space,      \* static long Total_space
  Remaining_space,  \* static long Remaining_space
  local,            \* cache directory: key -> bytes of the cache file
  ts,               \* user.timestamp xattr of each cache file, 0 when unset
  clock,            \* CLOCK_REALTIME
  remote,           \* cloud bucket: key -> bytes of the object
  refcount,         \* reference count of each segment (dedup layer)
  seglen,           \* length of the segment each key is the hash of
  stored,           \* history: keys an upload returned 0 for, not removed since
  fresh,            \* history: keys whose last call was an upload returning 0
  nfaults,          \* history: faults injected so far
  thr,              \* interleaved calls: each thread's call, position, locals, stream
  Tfile,            \* static FILE *Tfile: 0 = NULL, ClosedStream, or the thread
                    \* whose stream it points to
  Cfile,            \* static FILE *Cfile: the same
  ub,               \* whether a call has been made on a NULL or closed FILE*
  last              \* history: the last call, its result and its steps

vars == <<Total_space, Remaining_space, local, ts, clock, remote, refcount,
          seglen, stored, fresh, nfaults, thr, Tfile, Cfile, ub, last>>

\* f with key k bound to v / with key k unbound (f a function on a set of keys)
Put(f, k, v) == [x \in (DOMAIN f) \cup {k} |-> IF x = k THEN v ELSE f[x]]
Drop(f, k)   == [x \in (DOMAIN f) \ {k} |-> f[x]]

RECURSIVE SumSizes(_, _)
SumSizes(f, S) ==
  IF S = {} THEN 0
  ELSE LET k == CHOOSE x \in S : TRUE
       IN  FileSize(f[k]) + SumSizes(f, S \ {k})

\* Bytes the cache directory holds.
UsedSpace(f) == SumSizes(f, DOMAIN f)

\* ------------------------------------------------------------ cache_layer_init
\* The segment of key k, and the blob its cache file or object holds.
Segment(k) == SegmentBytes(k, seglen[k])
Blob(k)    == Compress(Segment(k))

cache_layer_init(total_space, init_space) ==
  /\ Total_space = total_space
  /\ Remaining_space = total_space - init_space

\* A thread that has made no call.
Idle == [op |-> "none", key |-> 0, pc |-> "idle", size |-> 0, tmp |-> 0,
         now |-> 0, ret |-> 0, fetched |-> FALSE, reserved |-> FALSE,
         cached |-> FALSE, stream |-> "none", buf |-> <<>>, pos |-> 0,
         orphan |-> FALSE, fp |-> 0, arg |-> 0, data |-> <<>>]

Threads == 1..NumThreads

NoCall == [op |-> "init", key |-> 0, ret |-> 0, fault |-> "none",
           steps |-> <<>>, wrote |-> FALSE, target |-> <<>>]

\* Start-up: a warm cache directory and bucket holding disjoint sets of
\* segments, and cache_layer_init(total, bytes the directory holds).  refs
\* are the reference counts the dedup layer holds.
Start(refs) ==
  /\ seglen = [k \in Keys |-> 1 + (k % MaxLen)]
  /\ refcount = refs
  /\ \E L \in SUBSET Keys : \E R \in SUBSET (Keys \ L) :
       /\ local = [k \in L |-> Blob(k)]
       /\ remote = [k \in R |-> Blob(k)]
       /\ ts = [k \in Keys |-> IF k \in L THEN k ELSE 0]
  /\ \E total \in 1..MaxTotal :
       /\ UsedSpace(local) <= total
       /\ cache_layer_init(total, UsedSpace(local))
  /\ clock = NumKeys
  /\ stored = {}
  /\ fresh = {}
  /\ nfaults = 0
  /\ thr = [t \in Threads |-> Idle]
  /\ Tfile = 0
  /\ Cfile = 0
  /\ ub = FALSE
  /\ last = NoCall

Init == Start([k \in Keys |-> 0])

\* ------------------------------------------------------------ update_timestamp
\* The xattrs after a successful update_timestamp(cache file of key).
update_timestamp(xattrs, key) == [xattrs EXCEPT ![key] = clock + 1]

\* -------------------------------------------------------------- evict_segments
\* The function's whole body is "(void) keep; return 0;": it evicts nothing
\* and reports success.
evict_segments(keep) == 0

\* What a call leaves behind: its return value, the fault that hit it, the
\* steps it ran (the failing one last), and the state it returns in.
Outcome(ret, fault, steps, l, x, c, r, rem, wrote, target) ==
  [ret |-> ret, fault |-> fault, steps |-> steps, local |-> l, ts |-> x,
   clock |-> c, remote |-> r, rem |-> rem, wrote |-> wrote, target |-> target]

\* ------------------------------------------------------ cache_layer_download_seg
\* Lines 172-182 and 185-194: touch the cache file, then delete the object.
\* gf is the fault that hit the fetch, if one did.
\* (Three variants with a slip each: the file is unlinked when the touch
\* fails, the result of the touch is ignored, the object is never deleted.)
KeepLocal_unlink(key, f, gf, steps, l, rem) ==
  IF f = "ts"
  THEN Outcome(-1, "ts", steps \o <<"touch", "unlink">>, Drop(l, key), ts,
               clock, remote, rem, FALSE, <<>>)
  ELSE Outcome(0, IF f = "del" THEN "del" ELSE gf,
               steps \o <<"touch", "del">>, l, update_timestamp(ts, key),
               clock + 1,
               IF f = "del" THEN remote ELSE Drop(remote, key), rem,
               FALSE, <<>>)
KeepLocal_ignore(key, f, gf, steps, l, rem) ==
  Outcome(0, IF f \in {"del", "ts"} THEN f ELSE gf,
          steps \o <<"touch", "del">>, l,
          IF f = "ts" THEN ts ELSE update_timestamp(ts, key),
          IF f = "ts" THEN clock ELSE clock + 1,
          IF f = "del" THEN remote ELSE Drop(remote, key), rem, FALSE, <<>>)

KeepLocal(key, f, gf, steps, l, rem) ==
  IF f = "ts"
  THEN Outcome(-1, "ts", steps \o <<"touch">>, l, ts, clock, remote, rem,
               FALSE, <<>>)
  ELSE Outcome(0, IF f = "del" THEN "del" ELSE gf,
               steps \o <<"touch", "del">>, l, update_timestamp(ts, key),
               clock + 1,
               IF f = "del" THEN remote ELSE Drop(remote, key), rem,
               FALSE, <<>>)

\* Lines 156-168: eviction is impossible, so serve the segment and drop it.
\* (Variant with a slip: the fetched file is never unlinked.)
PassThrough_keepfile(key, f, gf, steps, l, fetched, rem) ==
  IF f = "decomp" \/ ~CanDecompress(fetched)
  THEN Outcome(-1, IF f = "decomp" THEN "decomp" ELSE gf,
               steps \o <<"release", "decompress">>, l, ts, clock, remote, rem,
               FALSE, <<>>)
  ELSE Outcome(0, gf, steps \o <<"release", "decompress">>,
               l, ts, clock, remote, rem, TRUE, Decompress(fetched))
PassThrough(key, f, gf, steps, l, fetched, rem) ==
  IF f = "decomp" \/ ~CanDecompress(fetched)
  THEN Outcome(-1, IF f = "decomp" THEN "decomp" ELSE gf,
               steps \o <<"release", "decompress">>, l, ts, clock, remote, rem,
               FALSE, <<>>)
  ELSE IF f = "rm"
  THEN Outcome(-1, "rm", steps \o <<"release", "decompress", "unlink">>,
               l, ts, clock, remote, rem, TRUE, Decompress(fetched))
  ELSE Outcome(0, gf, steps \o <<"release", "decompress", "unlink">>,
               Drop(l, key), ts, clock, remote, rem, TRUE, Decompress(fetched))

\* Lines 131-195: the segment is not in the cache directory.
\* ev is what evict_segments(key) returns when it is called.
DownloadMissEv(key, f, ev) ==
  LET got     == key \in DOMAIN remote /\ f # "get"
      fetched == IF got THEN remote[key] ELSE <<>>
      l1      == Put(local, key, fetched)
      size    == FileSize(fetched)
      rem1    == Remaining_space - size
      gf      == IF f = "get" THEN "get" ELSE "none"
  IN  IF f = "stat"
      THEN Outcome(-1, "stat", <<"get", "stat">>, l1, ts, clock, remote,
                   Remaining_space, FALSE, <<>>)
      ELSE IF rem1 < 0
      THEN (IF ev = CANNOT_EVICT
               THEN PassThrough(key, f, gf,
                                <<"get", "stat", "reserve", "evict">>,
                                l1, fetched, rem1 + size)
               ELSE IF ev < 0
               THEN Outcome(ev, gf, <<"get", "stat", "reserve", "evict">>,
                            l1, ts, clock, remote, rem1, FALSE, <<>>)
               ELSE KeepLocal(key, f, gf,
                              <<"get", "stat", "reserve", "evict">>, l1, rem1))
      ELSE KeepLocal(key, f, gf, <<"get", "stat", "reserve">>, l1, rem1)

DownloadMiss(key, f) == DownloadMissEv(key, f, evict_segments(key))

\* Lines 196-206: the segment is in the cache directory.
\* (Variant with a slip: the hit reserves the file's bytes again.)
DownloadHit_rebill(key, f) ==
  IF f = "ts"
  THEN Outcome(-1, "ts", <<"touch">>, local, ts, clock, remote,
               Remaining_space, FALSE, <<>>)
  ELSE IF f = "decomp" \/ ~CanDecompress(local[key])
  THEN Outcome(-1, IF f = "decomp" THEN "decomp" ELSE "none",
               <<"touch", "decompress">>, local, update_timestamp(ts, key),
               clock + 1, remote, Remaining_space, FALSE, <<>>)
  ELSE Outcome(0, "none", <<"touch", "reserve", "decompress">>, local,
               update_timestamp(ts, key), clock + 1, remote,
               Remaining_space - FileSize(local[key]),
               TRUE, Decompress(local[key]))
DownloadHit(key, f) ==
  IF f = "ts"
  THEN Outcome(-1, "ts", <<"touch">>, local, ts, clock, remote,
               Remaining_space, FALSE, <<>>)
  ELSE IF f = "decomp" \/ ~CanDecompress(local[key])
  THEN Outcome(-1, IF f = "decomp" THEN "decomp" ELSE "none",
               <<"touch", "decompress">>, local, update_timestamp(ts, key),
               clock + 1, remote, Remaining_space, FALSE, <<>>)
  ELSE Outcome(0, "none", <<"touch", "decompress">>, local,
               update_timestamp(ts, key), clock + 1, remote, Remaining_space,
               TRUE, Decompress(local[key]))

DownloadOutcome(key, f) ==
  IF key \in DOMAIN local THEN DownloadHit(key, f) ELSE DownloadMiss(key, f)

\* -------------------------------------------------------- cache_layer_upload_seg
\* Line 240 negated: the cache has room for len more bytes.
HasRoom_strict(len) == Remaining_space > len
HasRoom(len) == ~(Remaining_space < len)

\* Lines 241-253: no room, so put the blob to the bucket and unlink the file.
StreamToRemote(key, f, l1, blob) ==
  LET r1 == IF f = "put" THEN remote ELSE Put(remote, key, blob)
      pf == IF f = "put" THEN "put" ELSE "none"
  IN  IF f = "rm"
      THEN Outcome(-1, "rm", <<"compress", "put", "unlink">>, l1, ts,
                   clock, r1, Remaining_space, FALSE, <<>>)
      ELSE Outcome(0, pf, <<"compress", "put", "unlink">>,
                   Drop(l1, key), [ts EXCEPT ![key] = 0], clock, r1,
                   Remaining_space, FALSE, <<>>)

\* Lines 254-262: room, so touch the cache file and reserve its bytes.
CacheLocally(key, f, l1, len) ==
  IF f = "ts"
  THEN Outcome(-1, "ts", <<"compress", "touch">>, l1, ts, clock, remote,
               Remaining_space, FALSE, <<>>)
  ELSE Outcome(0, "none", <<"compress", "touch", "reserve">>, l1,
               update_timestamp(ts, key), clock + 1, remote,
               Remaining_space - len, FALSE, <<>>)

UploadOutcome(key, f) ==
  LET blob == Blob(key)
      l1   == Put(local, key, blob)
      len_compressed_file == FileSize(blob)
  IN  IF f = "comp"
      THEN Outcome(-1, "comp", <<"compress">>, local, ts, clock, remote,
                   Remaining_space, FALSE, <<>>)
      ELSE IF ~HasRoom(len_compressed_file)
      THEN StreamToRemote(key, f, l1, blob)
      ELSE CacheLocally(key, f, l1, len_compressed_file)

\* -------------------------------------------------------- cache_layer_remove_seg
RemoveOutcome(key, f) ==
  IF key \notin DOMAIN local
  THEN Outcome(0, IF f = "del" THEN "del" ELSE "none", <<"del">>, local, ts,
               clock, IF f = "del" THEN remote ELSE Drop(remote, key),
               Remaining_space, FALSE, <<>>)
  ELSE IF f = "stat"
  THEN Outcome(-1, "stat", <<"stat">>, local, ts, clock, remote,
               Remaining_space, FALSE, <<>>)
  ELSE IF f = "rm"
  THEN Outcome(-1, "rm", <<"stat", "unlink">>, local, ts, clock, remote,
               Remaining_space, FALSE, <<>>)
  ELSE Outcome(0, "none", <<"stat", "unlink", "release">>, Drop(local, key),
               [ts EXCEPT ![key] = 0], clock, remote,
               Remaining_space + FileSize(local[key]), FALSE, <<>>)

\* ------------------------------------------------------------------ actions
\* The state a call returns in.
\* The value of a FILE* whose stream a returned call has closed: neither
\* function resets the static after fclose (lines 138, 247).
ClosedStream == 0 - 1

\* Whether a call ran step.
Called(steps, step) == \E i \in 1..Len(steps) : steps[i] = step

Return(op, key, o) ==
  /\ o.clock <= NumKeys + MaxClock
  /\ o.rem >= 0 - MaxDrift
  /\ o.rem <= Total_space + MaxDrift
  /\ nfaults' = IF o.fault = "none" THEN nfaults ELSE nfaults + 1
  /\ nfaults' <= MaxFaults
  /\ local' = o.local
  /\ ts' = o.ts
  /\ clock' = o.clock
  /\ remote' = o.remote
  /\ Remaining_space' = o.rem
  /\ last' = [op |-> op, key |-> key, ret |-> o.ret, fault |-> o.fault,
              steps |-> o.steps, wrote |-> o.wrote, target |-> o.target]
  /\ Tfile' = IF Called(o.steps, "get") THEN ClosedStream ELSE Tfile
  /\ Cfile' = IF Called(o.steps, "put") THEN ClosedStream ELSE Cfile
  /\ UNCHANGED <<Total_space, refcount, seglen, thr, ub>>

cache_layer_download_seg(key, f) ==
  Return("download", key, DownloadOutcome(key, f))

cache_layer_upload_seg(key, f) ==
  Return("upload", key, UploadOutcome(key, f))

cache_layer_remove_seg(key, f) ==
  Return("remove", key, RemoveOutcome(key, f))

\* History of the call just made: the keys an upload returned 0 for and no
\* remove was called on since, and the keys whose last call was such an upload.
TrackStored ==
  stored' = IF last'.op = "upload" /\ last'.ret = 0
            THEN stored \cup {last'.key}
            ELSE IF last'.op = "remove" THEN stored \ {last'.key} ELSE stored
TrackFresh ==
  fresh' = IF last'.op = "upload" /\ last'.ret = 0
           THEN fresh \cup {last'.key}
           ELSE fresh \ {last'.key}

DownloadFaults == {"none", "get", "stat", "ts", "del", "decomp", "rm"}
UploadFaults   == {"none", "comp", "put", "rm", "ts"}
RemoveFaults   == {"none", "del", "stat", "rm"}

\* Every call may be hit by one fault of a collaborator or of a local step.
Download == \E key \in Keys : \E f \in DownloadFaults :
              cache_layer_download_seg(key, f) /\ TrackStored /\ UNCHANGED fresh
Upload   == \E key \in Keys : \E f \in UploadFaults :
              cache_layer_upload_seg(key, f) /\ TrackStored /\ UNCHANGED fresh
Remove   == \E key \in Keys : \E f \in RemoveFaults :
              cache_layer_remove_seg(key, f) /\ TrackStored /\ UNCHANGED fresh

Next == Download \/ Upload \/ Remove
Spec == Init /\ [][Next]_vars

\* No fault is injected: every collaborator call and local step works.
DownloadOK == \E key \in Keys :
                cache_layer_download_seg(key, "none") /\ UNCHANGED <<stored, fresh>>
UploadOK   == \E key \in Keys :
                cache_layer_upload_seg(key, "none") /\ UNCHANGED <<stored, fresh>>
RemoveOK   == \E key \in Keys :
                cache_layer_remove_seg(key, "none") /\ UNCHANGED <<stored, fresh>>

NextOK == DownloadOK \/ UploadOK \/ RemoveOK
SpecOK == Init /\ [][NextOK]_vars

\* No fault, and the history of fresh uploads is kept.
DownloadRT == \E key \in Keys :
                cache_layer_download_seg(key, "none") /\ TrackFresh /\ UNCHANGED stored
UploadRT   == \E key \in Keys :
                cache_layer_upload_seg(key, "none") /\ TrackFresh /\ UNCHANGED stored
RemoveRT   == \E key \in Keys :
                cache_layer_remove_seg(key, "none") /\ TrackFresh /\ UNCHANGED stored

NextRT == DownloadRT \/ UploadRT \/ RemoveRT
SpecRT == Init /\ [][NextRT]_vars

\* No fault, and the dedup layer holds any reference counts.
InitRC == \E refs \in [Keys -> 0..MaxRef] : Start(refs)
SpecRC == InitRC /\ [][NextOK]_vars

\* One call at most is hit by a fault, and the run ends with it.
DownloadFail == \E key \in Keys : \E f \in DownloadFaults :
                  /\ nfaults = 0
                  /\ cache_layer_download_seg(key, f)
                  /\ UNCHANGED <<stored, fresh>>
UploadFail   == \E key \in Keys : \E f \in UploadFaults :
                  /\ nfaults = 0
                  /\ cache_layer_upload_seg(key, f)
                  /\ UNCHANGED <<stored, fresh>>
RemoveFail   == \E key \in Keys : \E f \in RemoveFaults :
                  /\ nfaults = 0
                  /\ cache_layer_remove_seg(key, f)
                  /\ UNCHANGED <<stored, fresh>>

NextFail == DownloadFail \/ UploadFail \/ RemoveFail
SpecFail == Init /\ [][NextFail]_vars

\* cache_layer_download_seg against the documented results of evict_segments
\* ("0 on success, CANNOT_EVICT if no segments can be evicted"), whichever
\* of them the call returns; no fault.
EvictResults == {0, CANNOT_EVICT}

DownloadPT == \E key \in Keys : \E ev \in EvictResults :
                /\ Return("download", key,
                          IF key \in DOMAIN local
                          THEN DownloadHit(key, "none")
                          ELSE DownloadMissEv(key, "none", ev))
                /\ UNCHANGED <<stored, fresh>>

NextPT == DownloadPT \/ UploadOK \/ RemoveOK
SpecPT == Init /\ [][NextPT]_vars

\* ------------------------------------------------------- interleaved calls
\* Each thread makes one call; a step of a thread is one library call the
\* function makes (access, fopen, fwrite, fclose, lstat, clock_gettime,
\* lsetxattr, ...) or one access to a static (Remaining_space, Tfile,
\* Cfile).  The file has no lock: "Remaining_space -= n" is a load and a
\* store, "Tfile = fopen(...)" is the fopen and a store, "fclose(Tfile)" and
\* the callbacks get_buffer and put_buffer are a load and the call.
\*
\* A stream is named by the thread that opened it (a call opens at most
\* one): thr[s].stream is "open" or "closed", thr[s].buf the bytes written
\* to it and not yet flushed (a stream opened "wb") or the bytes of its file
\* when the file was unlinked (a stream opened "rb"), thr[s].pos the read
\* position, thr[s].orphan whether its file has been unlinked since.
\* thr[t].fp is the FILE* fopen returned to t, thr[t].arg the FILE* t loaded
\* from the static, thr[t].data the bytes of the transfer t is making.
Shared ==
  [local |-> local, ts |-> ts, clock |-> clock, remote |-> remote,
   rem |-> Remaining_space, Tfile |-> Tfile, Cfile |-> Cfile, ub |-> ub,
   thr |-> thr]

Apply(n) ==
  /\ local' = n.local
  /\ ts' = n.ts
  /\ clock' = n.clock
  /\ remote' = n.remote
  /\ Remaining_space' = n.rem
  /\ Tfile' = n.Tfile
  /\ Cfile' = n.Cfile
  /\ ub' = n.ub
  /\ thr' = n.thr

\* Thread t at pc / returned with ret; the process killed by a signal.
At(t, pc) == [thr EXCEPT ![t].pc = pc]
Returned(t, ret) == [thr EXCEPT ![t].pc = "done", ![t].ret = ret]
Killed == [u \in Threads |-> [thr[u] EXCEPT !.pc = "killed"]]

\* Whether the FILE* f points to an open stream.
IsOpen(f) == f \in Threads /\ thr[f].stream = "open"

\* The open streams of the calls of one function: the streams the memory of
\* a closed stream of that function may have been given to.
Aliases(op) == {s \in Threads : thr[s].stream = "open" /\ thr[s].op = op}

\* The bytes a read through a closed stream may return: any char.  The
\* values the segments of this model are made of (0..MaxLen) are kept apart;
\* OtherByte stands for every other value (MaxLen + 1 .. 255), which no
\* operator of the model tells apart.
OtherByte == 255
Bytes == (0..MaxLen) \cup {OtherByte}
Garbage(n) == UNION {[1..m -> Bytes] : m \in 0..n}

\* A call on a NULL or closed FILE* is undefined: the process is killed; or
\* the call does nothing; or it has one of the effects acts (it acts on the
\* stream that now has the memory, or moves garbage).  After it the process
\* may be killed at any time (ProcessKilled).
Undefined(t, pc, acts) ==
  {[Shared EXCEPT !.thr = Killed]}
    \cup {[Shared EXCEPT !.ub = TRUE, !.thr = At(t, pc)]}
    \cup {[n EXCEPT !.ub = TRUE] : n \in acts}

\* n bytes written at offset 0 of a file holding old.
Overlay(new, old) ==
  IF Len(new) >= Len(old) THEN new
  ELSE new \o SubSeq(old, Len(new) + 1, Len(old))

\* The threads after the file of key k is unlinked: the streams open on it
\* keep the unlinked file.
Orphaned(T, k) ==
  [u \in Threads |->
     IF T[u].stream = "open" /\ T[u].key = k /\ ~T[u].orphan
     THEN [T[u] EXCEPT !.orphan = TRUE,
                       !.buf = IF T[u].op = "upload" THEN local[k] ELSE @]
     ELSE T[u]]

\* remove(cache_file): lines 164, 249, 298.
Unlink(t, k, T) ==
  IF k \in DOMAIN local
  THEN {[Shared EXCEPT !.local = Drop(local, k), !.ts[k] = 0,
                       !.thr = Orphaned(T, k)]}
  ELSE {[Shared EXCEPT !.thr = Returned(t, -1)]}

\* update_timestamp: clock_gettime (line 69), then lsetxattr (line 74),
\* which fails on a missing file.
ClockThen(t, pc) ==
  {[Shared EXCEPT !.clock = clock + 1,
                  !.thr = [thr EXCEPT ![t].pc = pc, ![t].now = clock + 1]]}
SetXattrThen(t, pc) ==
  LET k == thr[t].key
  IN  IF k \notin DOMAIN local
      THEN {[Shared EXCEPT !.thr = Returned(t, -1)]}
      ELSE {[Shared EXCEPT !.ts[k] = thr[t].now, !.thr = At(t, pc)]}

\* The load of "Remaining_space -= n" or "+= n", and its store.
LoadThen(t, pc) ==
  {[Shared EXCEPT !.thr = [thr EXCEPT ![t].pc = pc,
                                      ![t].tmp = Remaining_space]]}
StoreThen(t, pc, rem, reserved) ==
  {[Shared EXCEPT !.rem = rem,
                  !.thr = [thr EXCEPT ![t].pc = pc,
                                      ![t].reserved = reserved]]}

\* The load of Tfile or Cfile that a callback or an fclose(...) makes.
LoadFile(t, pc, f) ==
  {[Shared EXCEPT !.thr = [thr EXCEPT ![t].pc = pc, ![t].arg = f]]}

\* fwrite(buf, 1, len, s) of get_buffer: the bytes stay in the stream.
WriteTo(t, s, pc) ==
  [Shared EXCEPT !.thr = [thr EXCEPT ![s].buf = @ \o thr[t].data,
                                     ![t].pc = pc]]

\* fclose(s) of a stream opened "wb": its bytes reach the file, unless the
\* file has been unlinked.
CloseWrite(t, s, pc) ==
  LET T == [thr EXCEPT ![s].stream = "closed", ![s].buf = <<>>, ![t].pc = pc]
      j == thr[s].key
  IN  IF thr[s].orphan \/ j \notin DOMAIN local
      THEN [Shared EXCEPT !.thr = T]
      ELSE [Shared EXCEPT !.thr = T,
                          !.local = Put(local, j,
                                        Overlay(thr[s].buf, local[j]))]

\* The bytes a stream opened "rb" reads, at most n of them.
ReadFrom(s, n) ==
  LET all == IF thr[s].orphan \/ thr[s].key \notin DOMAIN local
             THEN thr[s].buf
             ELSE local[thr[s].key]
      hi  == IF thr[s].pos + n < Len(all) THEN thr[s].pos + n ELSE Len(all)
  IN  SubSeq(all, thr[s].pos + 1, hi)

\* fread(buf, 1, len, s) of put_buffer / the bytes g handed to the caller.
ReadInto(t, s, pc) ==
  LET data == ReadFrom(s, thr[t].size)
  IN  [Shared EXCEPT !.thr = [thr EXCEPT ![s].pos = @ + Len(data),
                                         ![t].data = data,
                                         ![t].pc = pc]]
Handed(t, g, pc) ==
  [Shared EXCEPT !.thr = [thr EXCEPT ![t].data = g, ![t].pc = pc]]

\* fclose(s) of a stream opened "rb".
CloseRead(t, s, pc) ==
  [Shared EXCEPT !.thr = [thr EXCEPT ![s].stream = "closed",
                                     ![s].buf = <<>>,
                                     ![t].pc = pc]]

DownloadStep(t) ==
  LET k  == thr[t].key
      pc == thr[t].pc
  IN  CASE pc = "d_access" ->                                   \* line 131
             {[Shared EXCEPT !.thr = At(t, IF k \in DOMAIN local
                                           THEN "d_hit" ELSE "d_fopen")]}
        [] pc = "d_fopen" ->                       \* line 135, fopen(.., "wb")
             {[Shared EXCEPT
                 !.local = Put(local, k, <<>>),
                 !.thr = [thr EXCEPT ![t].pc = "d_setT", ![t].stream = "open",
                                     ![t].buf = <<>>, ![t].orphan = FALSE,
                                     ![t].fp = t]]}
        [] pc = "d_setT" ->                        \* line 135, Tfile = ...
             {[Shared EXCEPT !.Tfile = thr[t].fp, !.thr = At(t, "d_get")]}
        [] pc = "d_get" ->                         \* line 136, the request
             IF k \notin DOMAIN remote
             THEN {[Shared EXCEPT !.thr = At(t, "d_ldclose")]}
             ELSE {[Shared EXCEPT
                      !.thr = [thr EXCEPT ![t].pc = "d_ldget",
                                          ![t].data = remote[k],
                                          ![t].fetched = TRUE]]}
        [] pc = "d_ldget" -> LoadFile(t, "d_write", Tfile)      \* line 31
        [] pc = "d_write" ->                                    \* line 31
             IF IsOpen(thr[t].arg)
             THEN {WriteTo(t, thr[t].arg, "d_ldclose")}
             ELSE Undefined(t, "d_ldclose",
                            {WriteTo(t, s, "d_ldclose") :
                               s \in Aliases("download")})
        [] pc = "d_ldclose" -> LoadFile(t, "d_fclose", Tfile)   \* line 138
        [] pc = "d_fclose" ->                                   \* line 138
             IF IsOpen(thr[t].arg)
             THEN {CloseWrite(t, thr[t].arg, "d_stat")}
             ELSE Undefined(t, "d_stat",
                            {CloseWrite(t, s, "d_stat") :
                               s \in Aliases("download")})
        [] pc = "d_stat" ->                                     \* lines 143-147
             IF k \notin DOMAIN local
             THEN {[Shared EXCEPT !.thr = Returned(t, -1)]}
             ELSE {[Shared EXCEPT
                      !.thr = [thr EXCEPT ![t].pc = "d_load",
                                          ![t].size = FileSize(local[k])]]}
        [] pc = "d_load" -> LoadThen(t, "d_store")              \* line 148
        [] pc = "d_store" ->
             StoreThen(t, "d_check", thr[t].tmp - thr[t].size, TRUE)
        [] pc = "d_check" ->                                    \* lines 153-156
             IF Remaining_space < 0
             THEN (IF evict_segments(k) = CANNOT_EVICT
                   THEN {[Shared EXCEPT !.thr = At(t, "d_load2")]}
                   ELSE IF evict_segments(k) < 0
                   THEN {[Shared EXCEPT
                            !.thr = Returned(t, evict_segments(k))]}
                   ELSE {[Shared EXCEPT !.thr = At(t, "d_clock")]})
             ELSE {[Shared EXCEPT !.thr = At(t, "d_clock")]}
        [] pc = "d_load2" -> LoadThen(t, "d_store2")            \* line 158
        [] pc = "d_store2" ->
             StoreThen(t, "d_pass", thr[t].tmp + thr[t].size, FALSE)
        [] pc = "d_pass" ->                                     \* lines 160-163
             IF k \in DOMAIN local /\ CanDecompress(local[k])
             THEN {[Shared EXCEPT !.thr = At(t, "d_unlink")]}
             ELSE {[Shared EXCEPT !.thr = Returned(t, -1)]}
        [] pc = "d_unlink" ->                                   \* lines 164-168
             Unlink(t, k, Returned(t, 0))
        [] pc = "d_clock" -> ClockThen(t, "d_touch")            \* lines 174, 187
        [] pc = "d_touch" -> SetXattrThen(t, "d_del")
        [] pc = "d_del" ->                                      \* lines 180, 193
             {[Shared EXCEPT !.remote = Drop(remote, k),
                             !.thr = Returned(t, 0)]}
        [] pc = "d_hit" -> ClockThen(t, "d_hit_touch")          \* line 198
        [] pc = "d_hit_touch" -> SetXattrThen(t, "d_decomp")
        [] pc = "d_decomp" ->                                   \* line 202
             {[Shared EXCEPT
                 !.thr = Returned(t, IF k \in DOMAIN local
                                        /\ CanDecompress(local[k])
                                     THEN 0 ELSE -1)]}

UploadStep(t) ==
  LET k  == thr[t].key
      pc == thr[t].pc
  IN  CASE pc = "u_compress" ->                                 \* lines 234-238
             {[Shared EXCEPT
                 !.local = Put(local, k, Blob(k)),
                 !.thr = [thr EXCEPT ![t].pc = "u_check",
                                     ![t].size = FileSize(Blob(k))]]}
        [] pc = "u_check" ->                                    \* line 240
             {[Shared EXCEPT !.thr = At(t, IF HasRoom(thr[t].size)
                                           THEN "u_clock" ELSE "u_fopen")]}
        [] pc = "u_fopen" ->                       \* line 244, fopen(.., "rb")
             IF k \in DOMAIN local
             THEN {[Shared EXCEPT
                      !.thr = [thr EXCEPT ![t].pc = "u_setC",
                                          ![t].stream = "open",
                                          ![t].pos = 0,
                                          ![t].orphan = FALSE,
                                          ![t].fp = t]]}
             ELSE {[Shared EXCEPT
                      !.thr = [thr EXCEPT ![t].pc = "u_setC", ![t].fp = 0]]}
        [] pc = "u_setC" ->                        \* line 244, Cfile = ...
             {[Shared EXCEPT !.Cfile = thr[t].fp, !.thr = At(t, "u_ldput")]}
        [] pc = "u_ldput" -> LoadFile(t, "u_read", Cfile)       \* line 37
        [] pc = "u_read" ->                                     \* line 37
             IF IsOpen(thr[t].arg)
             THEN {ReadInto(t, thr[t].arg, "u_send")}
             ELSE Undefined(t, "u_send",
                            {ReadInto(t, s, "u_send") :
                               s \in Aliases("upload")}
                              \cup {Handed(t, g, "u_send") :
                                      g \in Garbage(thr[t].size)})
        [] pc = "u_send" ->                        \* line 245, the request
             {[Shared EXCEPT !.remote = Put(remote, k, thr[t].data),
                             !.thr = At(t, "u_ldclose")]}
        [] pc = "u_ldclose" -> LoadFile(t, "u_fclose", Cfile)   \* line 247
        [] pc = "u_fclose" ->                                   \* line 247
             IF IsOpen(thr[t].arg)
             THEN {CloseRead(t, thr[t].arg, "u_unlink")}
             ELSE Undefined(t, "u_unlink",
                            {CloseRead(t, s, "u_unlink") :
                               s \in Aliases("upload")})
        [] pc = "u_unlink" ->                                   \* lines 249-253
             Unlink(t, k, Returned(t, 0))
        [] pc = "u_clock" -> ClockThen(t, "u_touch")            \* line 257
        [] pc = "u_touch" -> SetXattrThen(t, "u_load")
        [] pc = "u_load" -> LoadThen(t, "u_store")              \* line 261
        [] pc = "u_store" ->
             StoreThen(t, "done", thr[t].tmp - thr[t].size, TRUE)

RemoveStep(t) ==
  LET k  == thr[t].key
      pc == thr[t].pc
  IN  CASE pc = "r_access" ->                                   \* line 286
             {[Shared EXCEPT !.thr = At(t, IF k \in DOMAIN local
                                           THEN "r_stat" ELSE "r_del")]}
        [] pc = "r_del" ->                                      \* line 288
             {[Shared EXCEPT !.remote = Drop(remote, k),
                             !.thr = Returned(t, 0)]}
        [] pc = "r_stat" ->                                     \* lines 293-297
             IF k \notin DOMAIN local
             THEN {[Shared EXCEPT !.thr = Returned(t, -1)]}
             ELSE {[Shared EXCEPT
                      !.thr = [thr EXCEPT ![t].pc = "r_unlink",
                                          ![t].size = FileSize(local[k])]]}
        [] pc = "r_unlink" ->                                   \* lines 298-302
             Unlink(t, k, At(t, "r_load"))
        [] pc = "r_load" -> LoadThen(t, "r_store")              \* line 303
        [] pc = "r_store" ->
             StoreThen(t, "done", thr[t].tmp + thr[t].size, FALSE)

\* Thread t enters a call.
Enter(t, op, key) ==
  /\ thr[t].pc = "idle"
  /\ thr' = [thr EXCEPT ![t] =
               [Idle EXCEPT !.op = op, !.key = key,
                            !.cached = (key \in DOMAIN local),
                            !.pc = CASE op = "download" -> "d_access"
                                     [] op = "upload" -> "u_compress"
                                     [] op = "remove" -> "r_access"]]
  /\ UNCHANGED <<local, ts, clock, remote, Remaining_space, Tfile, Cfile, ub>>

Running(t, op) == thr[t].op = op /\ thr[t].pc \notin {"done", "killed"}

ConcFrame == UNCHANGED <<Total_space, refcount, seglen, stored, fresh,
                         nfaults, last>>

ThreadEnter == \E t \in Threads : \E key \in Keys :
                 \E op \in {"download", "upload", "remove"} :
                   Enter(t, op, key) /\ ConcFrame
ThreadDownload == \E t \in Threads :
                    /\ Running(t, "download")
                    /\ \E n \in DownloadStep(t) : Apply(n)
                    /\ ConcFrame
ThreadUpload   == \E t \in Threads :
                    /\ Running(t, "upload")
                    /\ \E n \in UploadStep(t) : Apply(n)
                    /\ ConcFrame
ThreadRemove   == \E t \in Threads :
                    /\ Running(t, "remove")
                    /\ \E n \in RemoveStep(t) : Apply(n)
                    /\ ConcFrame

\* Once a call has been made on a NULL or closed FILE* the process may be
\* killed at any time: in a later step of a call, between calls, or when
\* the calling thread exits after every call has returned.
ProcessKilled ==
  /\ ub
  /\ \E t \in Threads : thr[t].pc # "killed"
  /\ Apply([Shared EXCEPT !.thr = Killed])
  /\ ConcFrame

NextConc ==
  ThreadEnter \/ ThreadDownload \/ ThreadUpload \/ ThreadRemove
    \/ ProcessKilled
SpecConc == Init /\ [][NextConc]_vars

\* ================================================================== claims
\* step is among the steps a call ran
Ran(call, step) == \E i \in 1..Len(call.steps) : call.steps[i] = step

IsLocal(k)  == k \in DOMAIN local
IsRemote(k) == k \in DOMAIN remote

\* C1 (space conservation): between operations Remaining_space equals
\* Total_space minus the summed size of the cache files that exist.
C1_SpaceConservation ==
  Remaining_space = Total_space - UsedSpace(local)

\* C2 (mutual exclusivity): between operations no key is both a cache file
\* and an object of the bucket.
C2_MutualExclusivity ==
  \A k \in Keys : ~(IsLocal(k) /\ IsRemote(k))

\* C3 (non-negative budget on return): started with Remaining_space >= 0,
\* every download, upload and remove returns with Remaining_space >= 0.
C3_NonNegativeOnReturn ==
  last.op \in {"download", "upload", "remove"} => Remaining_space >= 0

\* C4 (round trip): a download returning 0 of a key whose last call was an
\* upload returning 0 writes exactly the uploaded segment to the target.
C4_RoundTrip ==
  [][(last'.op = "download" /\ last'.ret = 0 /\ last'.key \in fresh)
       => (last'.wrote /\ last'.target = Segment(last'.key))]_vars

\* C5 (no data loss): every key an upload stored and no remove was called on
\* has its complete blob in the cache directory or in the bucket.
C5_NoDataLoss ==
  \A k \in stored : \/ (IsLocal(k) /\ local[k] = Blob(k))
                    \/ (IsRemote(k) /\ remote[k] = Blob(k))

\* C6 (remove deletes the segment wherever it lives): after a remove that
\* returns 0 the key is neither Local nor Remote, and Remaining_space grew by
\* the size of the cache file when there was one and is unchanged otherwise.
C6_RemoveEverywhere ==
  [][(last'.op = "remove" /\ last'.ret = 0)
       => LET k == last'.key
          IN  /\ k \notin DOMAIN local'
              /\ k \notin DOMAIN remote'
              /\ Remaining_space' = Remaining_space +
                   (IF IsLocal(k) THEN FileSize(local[k]) ELSE 0)]_vars

\* C7 (idempotent remove): remove of a key that is neither Local nor Remote
\* returns 0 and changes nothing; and a second remove of the same key right
\* after a first one changes neither Remaining_space, the cache directory nor
\* the bucket.
C7_IdempotentRemove ==
  [][/\ (last'.op = "remove" /\ ~IsLocal(last'.key) /\ ~IsRemote(last'.key))
          => /\ last'.ret = 0
             /\ Remaining_space' = Remaining_space
             /\ local' = local
             /\ remote' = remote
     /\ (last.op = "remove" /\ last'.op = "remove" /\ last'.key = last.key)
          => /\ Remaining_space' = Remaining_space
             /\ local' = local
             /\ remote' = remote]_vars

\* C8 (idempotent end state of upload and download): with no failure, a
\* second upload (or download) of the same key right after a first leaves
\* the key where it was and Remaining_space as it was.
C8_IdempotentEndState ==
  [][(/\ last'.op \in {"upload", "download"}
      /\ last.op = last'.op
      /\ last.key = last'.key
      /\ last.ret = 0
      /\ last'.ret = 0)
       => LET k == last'.key
          IN  /\ Remaining_space' = Remaining_space
              /\ (k \in DOMAIN local') = IsLocal(k)
              /\ (k \in DOMAIN remote') = IsRemote(k)]_vars

\* The eviction policy of evict_segments' header comment, over the cache
\* files other than keep: a comes before b when it is less referenced, or
\* equally referenced and older (equal timestamps by key).
Before(a, b) ==
  \/ refcount[a] < refcount[b]
  \/ /\ refcount[a] = refcount[b]
     /\ (ts[a] < ts[b] \/ (ts[a] = ts[b] /\ a < b))

UnderReferenced(keep) ==
  {k \in (DOMAIN local) \ {keep} : refcount[k] < refcount[keep]}

\* The segments evict_segments(keep) may evict: the under-referenced ones,
\* or, when there are none, those referenced as often as keep.
Evictable(keep) ==
  IF UnderReferenced(keep) # {}
  THEN UnderReferenced(keep)
  ELSE {k \in (DOMAIN local) \ {keep} : refcount[k] = refcount[keep]}

\* The cache files a step deleted.
Evicted(keep) == {k \in (DOMAIN local) \ {keep} : k \notin DOMAIN local'}

\* C9 (eviction ordering): when a download's evict_segments(keep) evicts, no
\* segment is gone while one that comes before it (fewer references, then
\* older) is still Local, nothing but evictable segments is gone, and keep
\* is still Local.
C9_EvictionOrdering ==
  [][(/\ last'.op = "download"
      /\ Ran(last', "evict")
      /\ Evicted(last'.key) # {})
       => LET keep == last'.key
          IN  /\ Evicted(keep) \subseteq Evictable(keep)
              /\ \A v \in Evicted(keep) :
                   \A w \in Evictable(keep) \ Evicted(keep) : Before(v, w)
              /\ keep \in DOMAIN local']_vars

\* C10 (eviction infeasibility): a download that calls evict_segments(keep)
\* while no other cache file is referenced as little as keep gets
\* CANNOT_EVICT: nothing is evicted and the download passes through (it gives
\* the reserved bytes back and does not keep the segment).
C10_EvictionInfeasible ==
  [][(/\ last'.op = "download"
      /\ Ran(last', "evict")
      /\ Evictable(last'.key) = {})
       => /\ Ran(last', "release")
          /\ Evicted(last'.key) = {}
          /\ (last'.ret = 0 => local' = local)
          /\ Remaining_space' = Remaining_space]_vars

\* The step a call ended with.
LastStep(call) == call.steps[Len(call.steps)]

\* C12 (collaborator failures abort the operation): a call whose remote get,
\* put or delete failed returns a failure, and the failing call is the last
\* step it ran.
C12_RemoteFailureAborts ==
  last.fault \in {"get", "put", "del"}
    => (last.ret < 0 /\ LastStep(last) = last.fault)

\* C13 (a failed attempt does not over-bill): a call that starts with exact
\* accounting and returns a failure leaves Remaining_space no smaller than
\* Total_space minus the bytes of the cache files that exist.
C13_FailedCallNoOverBilling ==
  [][(last'.ret < 0 /\ C1_SpaceConservation)
       => Remaining_space' >= Total_space' - UsedSpace(local')]_vars

\* C13 witness: a download failed after it reserved the bytes of the file it
\* fetched, and the file is there.
C13_Witness ==
  /\ last.op = "download"
  /\ last.ret < 0
  /\ Ran(last, "reserve")
  /\ IsLocal(last.key)
  /\ FileSize(local[last.key]) > 0
  /\ C1_SpaceConservation

\* C14 (upload without room streams to remote): an upload returning 0 of a
\* key that is not Local, with Remaining_space below the compressed size,
\* leaves the key Remote and not Local, and Remaining_space and the cache
\* files of the other keys as they were.
C14_UploadNoRoom ==
  [][(/\ last'.op = "upload"
      /\ last'.ret = 0
      /\ ~IsLocal(last'.key)
      /\ Remaining_space < FileSize(Blob(last'.key)))
       => LET k == last'.key
          IN  /\ k \in DOMAIN remote'
              /\ remote'[k] = Blob(k)
              /\ k \notin DOMAIN local'
              /\ local' = local
              /\ Remaining_space' = Remaining_space]_vars

\* C15 (upload with room caches locally only): an upload returning 0 with
\* Remaining_space at least the compressed size leaves the key Local,
\* Remaining_space smaller by exactly that size and not negative, the key's
\* timestamp set to a new reading of the clock, and makes no put.
C15_UploadWithRoom ==
  [][(/\ last'.op = "upload"
      /\ last'.ret = 0
      /\ Remaining_space >= FileSize(Blob(last'.key)))
       => LET k == last'.key
          IN  /\ k \in DOMAIN local'
              /\ local'[k] = Blob(k)
              /\ Remaining_space' = Remaining_space - FileSize(Blob(k))
              /\ Remaining_space' >= 0
              /\ ts'[k] = clock'
              /\ ts'[k] > ts[k]
              /\ remote' = remote
              /\ ~Ran(last', "put")]_vars

\* C15 witness: an upload took exactly the room that was left.
C15_Witness ==
  /\ last.op = "upload"
  /\ last.ret = 0
  /\ Ran(last, "reserve")
  /\ IsLocal(last.key)
  /\ ~IsRemote(last.key)
  /\ Remaining_space = 0

\* C16 (download miss that is retained): a download returning 0 of a key
\* that is Remote and not Local, and that does not pass through, leaves the
\* key Local with the object's bytes, its timestamp set to a new reading of
\* the clock, Remaining_space smaller by the file's size, and the object
\* deleted.
C16_DownloadMissRetained ==
  [][(/\ last'.op = "download"
      /\ last'.ret = 0
      /\ IsRemote(last'.key)
      /\ ~IsLocal(last'.key)
      /\ ~Ran(last', "release"))
       => LET k == last'.key
          IN  /\ k \in DOMAIN local'
              /\ local'[k] = remote[k]
              /\ ts'[k] = clock'
              /\ ts'[k] > ts[k]
              /\ Remaining_space' = Remaining_space - FileSize(remote[k])
              /\ k \notin DOMAIN remote']_vars

\* C17 (download pass-through on infeasible eviction): a download returning
\* 0 that missed, went over budget and got CANNOT_EVICT leaves
\* Remaining_space, the cache directory (the key not in it) and the bucket
\* (the key's object in it) as they were, and the target holds the segment.
C17_PassThrough ==
  [][(/\ last'.op = "download"
      /\ last'.ret = 0
      /\ Ran(last', "release"))
       => LET k == last'.key
          IN  /\ Remaining_space' = Remaining_space
              /\ k \notin DOMAIN local'
              /\ local' = local
              /\ remote' = remote
              /\ k \in DOMAIN remote'
              /\ last'.wrote
              /\ last'.target = Segment(k)]_vars

\* C17 witness: a download passed a segment through to the target.
C17_Witness ==
  /\ last.op = "download"
  /\ last.ret = 0
  /\ Ran(last, "evict")
  /\ Ran(last, "release")
  /\ last.wrote
  /\ last.target = Segment(last.key)
  /\ ~IsLocal(last.key)
  /\ IsRemote(last.key)

\* C18 (download hit changes only the timestamp): a download of a key that
\* is Local calls no remote-store function and leaves Remaining_space, the
\* cache directory, the bucket and the other keys' timestamps as they were.
C18_DownloadHitFrame ==
  [][(last'.op = "download" /\ IsLocal(last'.key))
       => /\ Remaining_space' = Remaining_space
          /\ local' = local
          /\ remote' = remote
          /\ \A j \in Keys \ {last'.key} : ts'[j] = ts[j]
          /\ ~Ran(last', "get")
          /\ ~Ran(last', "put")
          /\ ~Ran(last', "del")]_vars

\* C18 witness: a download was served from the cache file and touched it.
C18_Witness ==
  /\ last.op = "download"
  /\ last.ret = 0
  /\ last.steps = <<"touch", "decompress">>
  /\ last.wrote
  /\ ts[last.key] = clock

\* C19 (a failed update_timestamp is a hard error): a download or upload in
\* which update_timestamp failed returns a negative value with that as its
\* last step: the target is not written, the bucket and the timestamps are
\* as they were, and Remaining_space is not changed after the failure (an
\* upload and a download hit leave it as it was, a download miss leaves it
\* at the value reserved before the touch).
C19_TimestampFailureIsHard ==
  [][(last'.fault = "ts")
       => LET k == last'.key
          IN  /\ last'.ret < 0
              /\ LastStep(last') = "touch"
              /\ ~last'.wrote
              /\ remote' = remote
              /\ ts' = ts
              /\ Remaining_space' =
                   IF last'.op = "download" /\ ~IsLocal(k)
                   THEN Remaining_space - FileSize(local'[k])
                   ELSE Remaining_space]_vars

\* C19 witness: a download miss stopped at the failed touch, the object
\* still in the bucket.
C19_Witness ==
  /\ last.op = "download"
  /\ last.fault = "ts"
  /\ last.ret < 0
  /\ Ran(last, "reserve")
  /\ IsLocal(last.key)
  /\ IsRemote(last.key)

\* Every thread has returned.
AllDone == \A t \in Threads : thr[t].pc = "done"

\* C11 (at most one fetch per key under concurrency): when all the calls
\* that ran interleaved were downloads of one key that was not Local and is
\* in the bucket, they did not all fetch it and all subtract its size, and
\* its bytes are counted in Remaining_space at most once.
C11_OneFetchPerKey ==
  (/\ AllDone
   /\ \E k \in Keys : \A t \in Threads :
        thr[t].op = "download" /\ thr[t].key = k /\ ~thr[t].cached)
    => /\ ~(\A t \in Threads :
              thr[t].fetched /\ thr[t].reserved /\ thr[t].size > 0)
       /\ Remaining_space >= Total_space - UsedSpace(local)

\* C20 (check-then-reserve is not raced): when all the calls that ran
\* interleaved were uploads of different keys, none of them Local before,
\* and every one of the segments is kept Local, Remaining_space is not
\* negative and equals Total_space minus the bytes of the cache files.
C20_NoCheckThenReserveRace ==
  (/\ AllDone
   /\ \A t \in Threads : thr[t].op = "upload" /\ ~thr[t].cached
   /\ \A t, u \in Threads : t # u => thr[t].key # thr[u].key
   /\ \A t \in Threads : IsLocal(thr[t].key))
    => /\ Remaining_space >= 0
       /\ C1_SpaceConservation
====
